---------------------------- MODULE Spec2Model ----------------------------
(***************************************************************************)
(* Row-wise softmax of src/day42/tlfsoftmax.py: the host-side wrapper      *)
(* softmax(x) (occupancy-aware launch planner) and the device kernel       *)
(* _softmax_kernel, whose instances run concurrently, one action per loop  *)
(* step of one instance.                                                   *)
(*                                                                         *)
(* The compiler's answer to warmup (kernel.n_regs, kernel.metadata.shared) *)
(* is an input of the program: it is drawn from a table indexed by the     *)
(* pipeline depth the kernel is specialised for.                           *)
(*                                                                         *)
(* exp, sum and the division are real arithmetic and are not computed:     *)
(* an output cell holds the lane's stabilised exponent row - max(row).     *)
(***************************************************************************)
EXTENDS Integers, Sequences, FiniteSets, Bags, TLC

----------------------------------------------------------------------------
(* Bounds of the model *)

MaxRows == 3
MaxCols == 3
MaxSM == 2
MaxPad == 1

(* Column counts around the thresholds of the concurrency-width table *)
WideCols == {1024, 1025, 2048, 2049, 4097}

(* Register files, fast-memory sizes of the devices drawn *)
RegFiles == {16384, 32768, 65536}
SramSizes == {100000, 200000, 200001}

(* Footprints the compiler may report: registers per thread, and the     *)
(* shared memory per program for a pipeline of depth 2 and of depth 4.   *)
RegNeeds == {128, 255}
SharedNeeds == {<<0, 65536>>, <<65536, 65536>>, <<65536, 131072>>, <<131072, 262144>>}

Shapes == (0..MaxRows) \X (0..MaxCols)

(* Shapes of the planning phase alone: wide rows as well *)
PlanShapes == (0..MaxRows) \X ((0..MaxCols) \cup WideCols)

----------------------------------------------------------------------------
(* Program constants and pure helpers *)

WARP_SIZE == 32

NegInf == -1000000

RECURSIVE Pow2AtLeast(_, _)
Pow2AtLeast(p, n) == IF p >= n THEN p ELSE Pow2AtLeast(2 * p, n)

next_power_of_2_greater(n) == IF n = 0 THEN 0 ELSE Pow2AtLeast(1, n + 1)

next_power_of_2(n) == IF n = 0 THEN 0 ELSE Pow2AtLeast(1, n)

NumWraps_late(block) == IF block > 4096 THEN 16 ELSE IF block > 2048 THEN 8 ELSE 4

NumWraps(block) == IF block >= 4096 THEN 16 ELSE IF block >= 2048 THEN 8 ELSE 4

NumStages(sram) == IF sram > 200000 THEN 4 ELSE 2

RegOccupancy_swapped(regs, nregs, warp, wraps) == (nregs * warp * wraps) \div regs

RegOccupancy(regs, nregs, warp, wraps) == regs \div (nregs * warp * wraps)

SramOccupancy(sram, needed) == sram \div needed

ProgramsPerSM_max(ro, so) == IF ro >= so THEN ro ELSE so

ProgramsPerSM(ro, so) == IF ro <= so THEN ro ELSE so

NumPrograms(sm, per_sm, rows) == IF sm * per_sm <= rows THEN sm * per_sm ELSE rows

(* The test input: a fixed pattern, negative on even rows *)
x_data(r, c) == IF r % 2 = 0 THEN 0 - (1 + ((r + 3 * c) % 5)) ELSE (r + 3 * c) % 5

----------------------------------------------------------------------------
VARIABLES
    NUM_SM, NUM_REGS, TOTAL_SRAM_PER_SM,   \* device properties (module load)
    footprint,                             \* what the compiler reports
    n_rows, n_cols,                        \* x.shape
    input_ptr, output_ptr,                 \* base addresses of x and y
    input_row_stride, output_row_stride,   \* x.stride(0), y.stride(0)
    pc,                                    \* position of the host in softmax
    BLOCK_SIZE, num_wraps, num_stages,
    compiled,                              \* the specialisation warmup compiled
    n_regs, sram_needed_per_program,
    reg_occupancy, sram_occupancy, programs_per_sm, num_programs,
    grid,                                  \* instances of the launch
    events,                                \* host-side calls, in order
    ipc, row_idx, row,                     \* per instance: position, index, tile
    processed,                             \* per instance: rows handled, in order
    loads, stores,                         \* bags of row indices loaded / stored
    rd, wr,                                \* per row: addresses read / written
    row_max,                               \* per row: tl.max(row)
    y,                                     \* output memory written so far
    prev                                   \* the plan of the previous process

hostVars == <<pc, BLOCK_SIZE, num_wraps, num_stages, compiled, n_regs,
              sram_needed_per_program, reg_occupancy, sram_occupancy,
              programs_per_sm, num_programs, grid, events>>
devVars == <<NUM_SM, NUM_REGS, TOTAL_SRAM_PER_SM, footprint>>
inVars == <<n_rows, n_cols, input_ptr, output_ptr, input_row_stride,
            output_row_stride>>
kernVars == <<ipc, row_idx, row, processed, loads, stores, rd, wr, row_max, y>>
vars == <<hostVars, devVars, inVars, kernVars, prev>>


----------------------------------------------------------------------------
(* Memory *)

(* The cells of x: row r, column c lives at input_ptr + r * stride + c *)
ValidIn ==
    {input_ptr + r * input_row_stride + c : r \in 0..(n_rows - 1), c \in 0..(n_cols - 1)}

ValidOut ==
    {output_ptr + r * output_row_stride + c : r \in 0..(n_rows - 1), c \in 0..(n_cols - 1)}

(* What a read of device memory returns: the element of x stored there, *)
(* and something unrelated (here a large value) anywhere else.          *)
Mem(addr) ==
    LET off == addr - input_ptr
    IN  IF off >= 0 /\ input_row_stride > 0
           /\ off \div input_row_stride < n_rows
           /\ off % input_row_stride < n_cols
        THEN x_data(off \div input_row_stride, off % input_row_stride)
        ELSE 99

Mask_le(c, ncols) == c <= ncols

Mask(c, ncols) == c < ncols

RowStep_one(g) == 1

RowStep(g) == g

TileMax(t) ==
    IF DOMAIN t = {} THEN NegInf
    ELSE LET vals == {t[c] : c \in DOMAIN t}
         IN  CHOOSE m \in vals : \A v \in vals : v <= m

NoPrev == [valid |-> FALSE, num_programs |-> 0, num_stages |-> 0]

----------------------------------------------------------------------------
(* A process: module load (lines 46-52) and the state at the entry of softmax *)

FreshCall ==
    /\ pc = "entry"
    /\ BLOCK_SIZE = 0 /\ num_wraps = 0 /\ num_stages = 0
    /\ compiled = [BLOCK_SIZE |-> 0, num_stages |-> 0, num_wraps |-> 0]
    /\ n_regs = 0 /\ sram_needed_per_program = 0
    /\ reg_occupancy = 0 /\ sram_occupancy = 0 /\ programs_per_sm = 0
    /\ num_programs = 0 /\ grid = 0
    /\ events = <<"get_device_properties">>
    /\ output_ptr = 0 /\ output_row_stride = 0
    /\ ipc = <<>> /\ row_idx = <<>> /\ row = <<>> /\ processed = <<>>
    /\ loads = EmptyBag /\ stores = EmptyBag
    /\ rd = <<>> /\ wr = <<>> /\ row_max = <<>> /\ y = <<>>

Init ==
    /\ NUM_SM \in 1..MaxSM
    /\ NUM_REGS \in RegFiles
    /\ TOTAL_SRAM_PER_SM \in SramSizes
    /\ footprint \in [n_regs : RegNeeds, shared : SharedNeeds]
    /\ \E s \in Shapes : n_rows = s[1] /\ n_cols = s[2]
    /\ input_ptr = 16
    /\ \E pad \in 0..MaxPad :
          input_row_stride = n_cols + pad
    /\ prev = NoPrev
    /\ FreshCall

----------------------------------------------------------------------------
(* softmax(x), lines 55-105 *)

(* lines 56-69: block size, step tables, y = torch.empty_like(x) *)
Plan ==
    /\ pc = "entry"
    /\ BLOCK_SIZE' = next_power_of_2(n_cols)
    /\ num_wraps' = NumWraps(BLOCK_SIZE')
    /\ num_stages' = NumStages(TOTAL_SRAM_PER_SM)
    /\ output_ptr' = input_ptr + (n_rows + 1) * (input_row_stride + 1)
    /\ output_row_stride' = n_cols
    /\ events' = Append(events, "softmax")
    /\ pc' = "planned"
    /\ UNCHANGED <<compiled, n_regs, sram_needed_per_program, reg_occupancy,
                   sram_occupancy, programs_per_sm, num_programs, grid>>
    /\ UNCHANGED <<devVars, n_rows, n_cols, input_ptr, input_row_stride, kernVars, prev>>

(* lines 71-77: _softmax_kernel.warmup(..., grid=(1,)) compiles without   *)
(* running. A block of zero lanes (n_cols = 0) is outside what the source *)
(* shows of the compiler: it either rejects it or compiles it.            *)
Warmup ==
    /\ pc = "planned"
    /\ events' = Append(events, "warmup")
    /\ \/ /\ compiled' = [BLOCK_SIZE |-> BLOCK_SIZE, num_stages |-> num_stages,
                          num_wraps |-> num_wraps]
          /\ pc' = "warmed"
       \/ /\ BLOCK_SIZE = 0
          /\ pc' = "CompileError"
          /\ UNCHANGED compiled
    /\ UNCHANGED <<BLOCK_SIZE, num_wraps, num_stages, n_regs, sram_needed_per_program,
                   reg_occupancy, sram_occupancy, programs_per_sm, num_programs, grid>>
    /\ UNCHANGED <<devVars, inVars, kernVars, prev>>

(* lines 81-83: the footprint of the specialisation just compiled *)
InitHandles ==
    /\ pc = "warmed"
    /\ n_regs' = footprint.n_regs
    /\ sram_needed_per_program' =
          footprint.shared[IF compiled.num_stages = 2 THEN 1 ELSE 2]
    /\ events' = Append(events, "init_handles")
    /\ pc' = "introspected"
    /\ UNCHANGED <<BLOCK_SIZE, num_wraps, num_stages, compiled, reg_occupancy,
                   sram_occupancy, programs_per_sm, num_programs, grid>>
    /\ UNCHANGED <<devVars, inVars, kernVars, prev>>

(* lines 85-93: line 89 divides by kernel.metadata.shared *)
Occupancy ==
    /\ pc = "introspected"
    /\ reg_occupancy' = RegOccupancy(NUM_REGS, n_regs, WARP_SIZE, num_wraps)
    /\ events' = Append(events, "occupancy")
    /\ IF sram_needed_per_program = 0
       THEN /\ pc' = "ZeroDivisionError"
            /\ UNCHANGED <<sram_occupancy, programs_per_sm, num_programs>>
       ELSE /\ sram_occupancy' = SramOccupancy(TOTAL_SRAM_PER_SM, sram_needed_per_program)
            /\ programs_per_sm' = ProgramsPerSM(reg_occupancy', sram_occupancy')
            /\ num_programs' = NumPrograms(NUM_SM, programs_per_sm', n_rows)
            /\ pc' = "occupancy"
    /\ UNCHANGED <<BLOCK_SIZE, num_wraps, num_stages, compiled, n_regs,
                   sram_needed_per_program, grid>>
    /\ UNCHANGED <<devVars, inVars, kernVars, prev>>

(* The instances of a launch of g programs: program_id 0..g-1, each at *)
(* the head of its loop with row_idx = row_start (lines 16-19).        *)
StartKernel(g) ==
    /\ grid' = g
    /\ ipc' = [i \in 0..(g - 1) |-> "loop"]
    /\ row_idx' = [i \in 0..(g - 1) |-> i]
    /\ row' = [i \in 0..(g - 1) |-> <<>>]
    /\ processed' = [i \in 0..(g - 1) |-> <<>>]
    /\ events' = Append(events, "launch")
    /\ pc' = "launched"
    /\ UNCHANGED <<loads, stores, rd, wr, row_max, y>>

Launch_before_occupancy ==
    /\ pc \in {"introspected", "occupancy"}
    /\ StartKernel(num_programs)
    /\ UNCHANGED <<BLOCK_SIZE, num_wraps, num_stages, compiled, n_regs,
                   sram_needed_per_program, reg_occupancy, sram_occupancy,
                   programs_per_sm, num_programs>>
    /\ UNCHANGED <<devVars, inVars, prev>>

(* lines 96-103: grid = (num_programs, 1, 1); kernel[grid](...) *)
Launch ==
    /\ pc = "occupancy"
    /\ StartKernel(num_programs)
    /\ UNCHANGED <<BLOCK_SIZE, num_wraps, num_stages, compiled, n_regs,
                   sram_needed_per_program, reg_occupancy, sram_occupancy,
                   programs_per_sm, num_programs>>
    /\ UNCHANGED <<devVars, inVars, prev>>

(* line 105: return y; the launch is asynchronous, the instances may still run *)
Return ==
    /\ pc = "launched"
    /\ events' = Append(events, "return")
    /\ pc' = "returned"
    /\ UNCHANGED <<BLOCK_SIZE, num_wraps, num_stages, compiled, n_regs,
                   sram_needed_per_program, reg_occupancy, sram_occupancy,
                   programs_per_sm, num_programs, grid>>
    /\ UNCHANGED <<devVars, inVars, kernVars, prev>>

----------------------------------------------------------------------------
(* _softmax_kernel, lines 16-43: instance i of the launch *)

Put(f, k, v) == [a \in DOMAIN f \cup {k} |-> IF a = k THEN v ELSE f[a]]

Touched(f, r) == IF r \in DOMAIN f THEN f[r] ELSE {}

(* lines 19-30: the loop test of tl.range, the pointers, the masked load *)
KLoad(i) ==
    /\ ipc[i] = "loop"
    /\ row_idx[i] < n_rows
    /\ LET r == row_idx[i]
           lanes == 0..(compiled.BLOCK_SIZE - 1)
           row_start_ptr == input_ptr + r * input_row_stride
           tile == [c \in lanes |->
                       IF Mask(c, n_cols) THEN Mem(row_start_ptr + c) ELSE NegInf]
       IN  /\ row' = [row EXCEPT ![i] = tile]
           /\ loads' = loads (+) SetToBag({r})
           /\ rd' = Put(rd, r, Touched(rd, r) \cup
                                {row_start_ptr + c : c \in {l \in lanes : Mask(l, n_cols)}})
    /\ ipc' = [ipc EXCEPT ![i] = "loaded"]
    /\ UNCHANGED <<row_idx, processed, stores, wr, row_max, y>>
    /\ UNCHANGED <<hostVars, devVars, inVars, prev>>

(* lines 33-43: max, subtraction, (exp, sum, division), the masked store, *)
(* and the step of tl.range to the instance's next row                    *)
KStore(i) ==
    /\ ipc[i] = "loaded"
    /\ LET r == row_idx[i]
           lanes == DOMAIN row[i]
           m == TileMax(row[i])
           row_minus_max == [c \in lanes |->
                                IF row[i][c] = NegInf THEN NegInf ELSE row[i][c] - m]
           output_row_start_ptr == output_ptr + r * output_row_stride
           cells == {output_row_start_ptr + c : c \in {l \in lanes : Mask(l, n_cols)}}
       IN  /\ row_max' = Put(row_max, r, m)
           /\ y' = [a \in DOMAIN y \cup cells |->
                       IF a \in cells THEN row_minus_max[a - output_row_start_ptr]
                       ELSE y[a]]
           /\ stores' = stores (+) SetToBag({r})
           /\ wr' = Put(wr, r, Touched(wr, r) \cup cells)
           /\ processed' = [processed EXCEPT ![i] = Append(@, r)]
           /\ row_idx' = [row_idx EXCEPT ![i] = r + RowStep(grid)]
    /\ row' = [row EXCEPT ![i] = <<>>]
    /\ ipc' = [ipc EXCEPT ![i] = "loop"]
    /\ UNCHANGED <<loads, rd>>
    /\ UNCHANGED <<hostVars, devVars, inVars, prev>>

(* line 19: tl.range is exhausted, the instance ends *)
KExit(i) ==
    /\ ipc[i] = "loop"
    /\ row_idx[i] >= n_rows
    /\ ipc' = [ipc EXCEPT ![i] = "done"]
    /\ UNCHANGED <<row_idx, row, processed, loads, stores, rd, wr, row_max, y>>
    /\ UNCHANGED <<hostVars, devVars, inVars, prev>>

----------------------------------------------------------------------------
Next ==
    \/ Plan
    \/ Warmup
    \/ InitHandles
    \/ Occupancy
    \/ Launch
    \/ Return
    \/ \E i \in DOMAIN ipc : KLoad(i)
    \/ \E i \in DOMAIN ipc : KStore(i)
    \/ \E i \in DOMAIN ipc : KExit(i)

Spec == Init /\ [][Next]_vars

----------------------------------------------------------------------------
(* The planning phase alone (lines 46-93), over wide rows as well, and    *)
(* over devices: the same program and input planned again in a new        *)
(* process on a device with a larger register file or more fast memory    *)
(* per unit (lines 46-52 read the properties once per process); prev      *)
(* keeps what the last process planned.                                   *)

InitPlan ==
    /\ NUM_SM \in 1..MaxSM
    /\ NUM_REGS \in RegFiles
    /\ TOTAL_SRAM_PER_SM \in SramSizes
    /\ footprint \in [n_regs : RegNeeds, shared : SharedNeeds]
    /\ \E s \in PlanShapes : n_rows = s[1] /\ n_cols = s[2]
    /\ input_ptr = 16
    /\ input_row_stride = n_cols
    /\ prev = NoPrev
    /\ FreshCall

PlanDone == pc \in {"occupancy", "ZeroDivisionError", "CompileError"}

ModuleLoad ==
    /\ PlanDone
    /\ \E regs \in RegFiles, sram \in SramSizes :
          /\ regs >= NUM_REGS /\ sram >= TOTAL_SRAM_PER_SM
          /\ <<regs, sram>> # <<NUM_REGS, TOTAL_SRAM_PER_SM>>
          /\ NUM_REGS' = regs
          /\ TOTAL_SRAM_PER_SM' = sram
    /\ prev' = [valid |-> pc = "occupancy", num_programs |-> num_programs,
                num_stages |-> num_stages]
    /\ pc' = "entry"
    /\ BLOCK_SIZE' = 0 /\ num_wraps' = 0 /\ num_stages' = 0
    /\ compiled' = [BLOCK_SIZE |-> 0, num_stages |-> 0, num_wraps |-> 0]
    /\ n_regs' = 0 /\ sram_needed_per_program' = 0
    /\ reg_occupancy' = 0 /\ sram_occupancy' = 0 /\ programs_per_sm' = 0
    /\ num_programs' = 0
    /\ events' = <<"get_device_properties">>
    /\ output_ptr' = 0 /\ output_row_stride' = 0
    /\ UNCHANGED <<grid, NUM_SM, footprint, n_rows, n_cols, input_ptr,
                   input_row_stride, kernVars>>

NextPlan ==
    \/ Plan
    \/ Warmup
    \/ InitHandles
    \/ Occupancy
    \/ ModuleLoad

SpecPlan == InitPlan /\ [][NextPlan]_vars

----------------------------------------------------------------------------
(* Properties *)

Launched == pc \in {"launched", "returned"}

KernelDone == Launched /\ \A i \in DOMAIN ipc : ipc[i] = "done"

Min(a, b) == IF a <= b THEN a ELSE b

RECURSIVE IsPow2(_)
IsPow2(b) == b = 1 \/ (b > 1 /\ b % 2 = 0 /\ IsPow2(b \div 2))

RowCells(base, stride, r) == {base + r * stride + c : c \in 0..(n_cols - 1)}

(* C1: instance i of a launch of grid >= 1 instances handles exactly the  *)
(* rows i, i + grid, i + 2*grid, ... below n_rows, in increasing order;   *)
(* under every interleaving no row is loaded or stored twice, no row      *)
(* index >= n_rows is touched, and when the kernel has finished every row *)
(* of 0..n_rows-1 was loaded once and stored once.                        *)
RowPartition ==
    (Launched /\ grid >= 1) =>
        /\ \A i \in DOMAIN processed :
              /\ \A k \in 1..Len(processed[i]) : processed[i][k] = i + (k - 1) * grid
              /\ ipc[i] = "loaded" => row_idx[i] = i + Len(processed[i]) * grid
              /\ ipc[i] = "done" =>
                    Len(processed[i]) = Cardinality({r \in 0..(n_rows - 1) : r % grid = i})
        /\ \A r \in BagToSet(loads) : r \in 0..(n_rows - 1) /\ CopiesIn(r, loads) = 1
        /\ \A r \in BagToSet(stores) : r \in 0..(n_rows - 1) /\ CopiesIn(r, stores) = 1
        /\ KernelDone =>
              \A r \in 0..(n_rows - 1) : CopiesIn(r, loads) = 1 /\ CopiesIn(r, stores) = 1

RowPartitionWitness ==
    /\ KernelDone
    /\ grid = 2 /\ n_rows = 3
    /\ processed[0] = <<0, 2>> /\ processed[1] = <<1>>

(* C2: when programs_per_sm is computed to be zero and there are rows to  *)
(* process, softmax raises before any launch: no launch of zero           *)
(* instances, no return of an output that no instance wrote.              *)
ZeroOccupancyRaises ==
    (pc \in {"occupancy", "launched", "returned"} /\ programs_per_sm = 0 /\ n_rows >= 1)
        => ~Launched

(* C3: with n_rows = 0 or n_cols = 0 the call makes no device query, no   *)
(* compile or introspection step and no launch.                           *)
EmptyReturnsAtOnce ==
    (n_rows = 0 \/ n_cols = 0) =>
        \A k \in 2..Len(events) :
            events[k] \notin {"get_device_properties", "warmup", "init_handles", "launch"}

(* C4, as stated: planned again on a device with more registers or more   *)
(* fast memory per unit, for the same (here non-empty) matrix,            *)
(* num_programs never drops.                                              *)
OccupancyMonotone ==
    (prev.valid /\ pc = "occupancy" /\ n_rows >= 1 /\ n_cols >= 1)
        => prev.num_programs <= num_programs

(* C4, amended: num_programs never drops when both devices select the     *)
(* same pipeline depth (the kernel is then specialised the same way and   *)
(* has the same footprint).                                               *)
OccupancyMonotoneSameDepth ==
    (prev.valid /\ pc = "occupancy" /\ prev.num_stages = num_stages)
        => prev.num_programs <= num_programs

OccupancyMonotoneWitness ==
    /\ prev.valid /\ pc = "occupancy" /\ prev.num_stages = num_stages
    /\ prev.num_programs >= 1
    /\ prev.num_programs < num_programs

(* C5: a row r is read at input_ptr + r*input_row_stride + c and written  *)
(* at output_ptr + r*output_row_stride + c for the lanes c < n_cols only; *)
(* the other lanes of the tile hold -inf, the row maximum is the maximum  *)
(* of the n_cols elements of the row, and nothing outside y's cells is    *)
(* written.                                                               *)
MaskingSafe ==
    /\ \A r \in DOMAIN rd : rd[r] = RowCells(input_ptr, input_row_stride, r)
    /\ \A r \in DOMAIN rd : rd[r] \subseteq ValidIn
    /\ \A r \in DOMAIN wr : wr[r] = RowCells(output_ptr, output_row_stride, r)
    /\ DOMAIN y \subseteq ValidOut
    /\ \A i \in DOMAIN ipc :
          ipc[i] = "loaded" =>
              /\ DOMAIN row[i] = 0..(BLOCK_SIZE - 1)
              /\ \A c \in DOMAIN row[i] :
                    row[i][c] = IF c < n_cols THEN x_data(row_idx[i], c) ELSE NegInf
    /\ \A r \in DOMAIN row_max :
          n_cols >= 1 =>
              /\ \E c \in 0..(n_cols - 1) : row_max[r] = x_data(r, c)
              /\ \A c \in 0..(n_cols - 1) : x_data(r, c) <= row_max[r]

MaskingWitness ==
    /\ KernelDone
    /\ n_cols = 3 /\ BLOCK_SIZE = 4 /\ n_rows >= 2
    /\ DOMAIN wr = 0..(n_rows - 1)
    /\ input_row_stride = n_cols

(* C6: the launch has min(NUM_SM * min(NUM_REGS div (n_regs * WARP_SIZE * *)
(* num_wraps), TOTAL_SRAM_PER_SM div shared), n_rows) instances, hence at *)
(* most n_rows.                                                           *)
LaunchedInstances ==
    Launched =>
        /\ grid = Min(NUM_SM * Min(NUM_REGS \div (footprint.n_regs * WARP_SIZE * num_wraps),
                                   TOTAL_SRAM_PER_SM \div
                                       footprint.shared[IF num_stages = 2 THEN 1 ELSE 2]),
                      n_rows)
        /\ grid <= n_rows
        /\ DOMAIN ipc = 0..(grid - 1)

LaunchedInstancesWitness ==
    /\ Launched
    /\ grid >= 1 /\ grid < n_rows
    /\ reg_occupancy < sram_occupancy

ConcurrencyWidth ==
    LET width == IF BLOCK_SIZE < 2048 THEN 4 ELSE IF BLOCK_SIZE < 4096 THEN 8 ELSE 16
    IN  /\ pc # "entry" => num_wraps = width
        /\ pc \in {"occupancy", "ZeroDivisionError", "launched", "returned"} =>
              reg_occupancy = NUM_REGS \div (footprint.n_regs * WARP_SIZE * width)

ConcurrencyWidthWitness ==
    /\ pc = "occupancy"
    /\ BLOCK_SIZE = 4096 /\ num_wraps = 16
    /\ reg_occupancy = 1

(* C9: the host's steps come in the order warmup, footprint, occupancy,   *)
(* launch, return: a launch has the grid the occupancy just computed for  *)
(* the footprint read, and a call that returns has launched exactly once. *)
HostOrder ==
    LET order == <<"get_device_properties", "softmax", "warmup", "init_handles",
                   "occupancy", "launch", "return">>
    IN  /\ Len(events) <= Len(order)
        /\ events = SubSeq(order, 1, Len(events))
        /\ Launched =>
              /\ grid = num_programs
              /\ n_regs = footprint.n_regs
              /\ events[Len(order) - 1] = "launch"
        /\ pc = "returned" =>
              Cardinality({k \in 1..Len(events) : events[k] = "launch"}) = 1

HostOrderWitness ==
    /\ pc = "returned"
    /\ grid >= 1
    /\ events[Len(events)] = "return"

(* C10: for a footprint of n_regs >= 1 registers and shared >= 0 bytes,   *)
(* zero bytes included, the occupancy is computed without an arithmetic   *)
(* error, and with zero bytes programs_per_sm is the register occupancy.  *)
ZeroSharedFootprint ==
    /\ pc # "ZeroDivisionError"
    /\ (pc \in {"occupancy", "launched", "returned"} /\ sram_needed_per_program = 0)
          => programs_per_sm = reg_occupancy

=============================================================================
